---- MODULE Spec2Model ----
(***************************************************************************)
(* Model of the configuration converter (src/main.py): the contextual      *)
(* lexer and LALR(1) parser generated from `grammar`, the inline           *)
(* MyTransformer callbacks that build the document and the constant table, *)
(* the postfix evaluator (_calc / _apply_op) and the Converter session.    *)
(*                                                                         *)
(* Input text is a sequence of lexemes (whitespace separated words).       *)
(* Values are records of one shape so that any two of them compare:        *)
(*   k : kind ("int", "float", "bool", "str", "list", "dict", ...)         *)
(*   n, d : numerator and denominator of a number (d = 1 for int, bool)    *)
(*   s : text of a string, of a key, of a token, name of an error          *)
(*   e : elements of a list, entries of a dict                             *)
(***************************************************************************)
EXTENDS Integers, Sequences, FiniteSets, TLC

VARIABLES
    consts,    \* per Converter: trans.consts, the constant table
    active,    \* the Converter whose parse_content call is the latest
    pstack,    \* the parser's stack of unfinished constructs
    text,      \* the lexemes the parser has accepted in the current call
    status,    \* "idle", "parsing", or how the latest call ended
    errkind,   \* the kind of the error raised, "" if none
    result,    \* the Document returned by the latest call
    log,       \* declarations stored and names looked up in the current call
    nparses,   \* number of parse_content calls so far
    nwords,    \* number of lexemes read in all calls so far
    base,      \* the constant table of the active Converter when the call began
    cConsts,   \* evaluator run: the constant table _calc consults
    cStack,    \* evaluator run: the operand stack
    cTok,      \* evaluator run: the item the loop handled last
    cN,        \* evaluator run: number of items handled
    cState,    \* evaluator run: "loop", "raised" or "returned"
    cRes       \* evaluator run: the value returned or the error raised

parserVars == <<consts, active, pstack, text, status, errkind, result, log, nparses, nwords, base>>
calcVars == <<cConsts, cStack, cTok, cN, cState, cRes>>
vars == <<consts, active, pstack, text, status, errkind, result, log, nparses, nwords, base,
          cConsts, cStack, cTok, cN, cState, cRes>>

----------------------------------------------------------------------------
(* Bounds of the model.                                                    *)

MaxText == 15
MaxTextLater == 10
MaxParses == 2
MaxDepth == 3
MaxExprLen == 3
MaxArrayLen == 2
MaxEntries == 2
MaxTop == 4
MaxCalcLen == 4
MaxDocText == 24
MaxDocLater == 24

----------------------------------------------------------------------------
(* Python values.                                                          *)

Mk(k, n, d, s, e) == [k |-> k, n |-> n, d |-> d, s |-> s, e |-> e]

RECURSIVE Gcd(_, _)
Gcd(a, b) == IF b = 0 THEN a ELSE Gcd(b, a % b)

Abs(x) == IF x < 0 THEN -x ELSE x

PyInt(n) == Mk("int", n, 1, "", <<>>)
PyBool(b) == Mk("bool", IF b THEN 1 ELSE 0, 1, "", <<>>)
PyStr(s) == Mk("str", 0, 1, s, <<>>)
PyList(e) == Mk("list", 0, 1, "", e)
PyDict(e) == Mk("dict", 0, 1, "", e)
PyNone == Mk("None", 0, 1, "", <<>>)
Entry(key, v) == Mk("entry", 0, 1, key, <<v>>)
Token(type, s) == Mk(type, 0, 1, s, <<>>)
Raise(kind) == Mk("error", 0, 1, kind, <<>>)

\* a float is the quotient n/d in lowest terms, d > 0
PyFloat(n, d) ==
    LET g == Gcd(Abs(n), Abs(d))
        sg == IF d < 0 THEN -1 ELSE 1
    IN  Mk("float", sg * (n \div g), sg * (d \div g), "", <<>>)

IsError(v) == v.k = "error"
IsStr(v) == v.k = "str"
\* isinstance(v, int): bool is a subclass of int
IsInt(v) == v.k \in {"int", "bool"}
IsNum(v) == v.k \in {"int", "float", "bool"}

\* dict operations: insertion ordered, an assignment to a present key
\* keeps the key's position
HasKey(dct, key) == \E i \in 1..Len(dct.e) : dct.e[i].s = key
Get(dct, key) == dct.e[CHOOSE i \in 1..Len(dct.e) : dct.e[i].s = key].e[1]
SetItem(dct, key, v) ==
    IF HasKey(dct, key)
    THEN PyDict([i \in 1..Len(dct.e) |->
                    IF dct.e[i].s = key THEN Entry(key, v) ELSE dct.e[i]])
    ELSE PyDict(Append(dct.e, Entry(key, v)))
Keys(dct) == {dct.e[i].s : i \in 1..Len(dct.e)}

RECURSIVE Update(_, _)
Update(dct, other) ==
    IF other.e = <<>> THEN dct
    ELSE Update(SetItem(dct, other.e[1].s, other.e[1].e[1]), PyDict(Tail(other.e)))

----------------------------------------------------------------------------
(* Textual forms: str() and repr() of a value.                             *)

DigitChar(dg) == SubSeq("0123456789", dg + 1, dg + 1)

RECURSIVE NatStr(_)
NatStr(n) == IF n < 10 THEN DigitChar(n) ELSE NatStr(n \div 10) \o DigitChar(n % 10)

IntStr(n) == IF n < 0 THEN "-" \o NatStr(-n) ELSE NatStr(n)

\* decimal digits of rem/d after the point, at most `left` of them
RECURSIVE FracStr(_, _, _)
FracStr(rem, d, left) ==
    IF rem = 0 \/ left = 0 THEN ""
    ELSE DigitChar((rem * 10) \div d) \o FracStr((rem * 10) % d, d, left - 1)

\* repr of a float: exact when the expansion ends within 16 digits,
\* cut after 16 digits otherwise
FloatStr(n, d) ==
    LET m == Abs(n)
    IN  (IF n < 0 THEN "-" ELSE "") \o NatStr(m \div d) \o "." \o
        (IF m % d = 0 THEN "0" ELSE FracStr(m % d, d, 16))

RECURSIVE PyRepr(_)
RECURSIVE JoinRepr(_)
JoinRepr(e) ==
    IF e = <<>> THEN ""
    ELSE LET one == IF e[1].k = "entry"
                    THEN "'" \o e[1].s \o "': " \o PyRepr(e[1].e[1])
                    ELSE PyRepr(e[1])
         IN  IF Len(e) = 1 THEN one ELSE one \o ", " \o JoinRepr(Tail(e))

PyRepr(v) ==
    CASE v.k = "int" -> IntStr(v.n)
      [] v.k = "bool" -> IF v.n = 1 THEN "True" ELSE "False"
      [] v.k = "float" -> FloatStr(v.n, v.d)
      [] v.k = "str" -> "'" \o v.s \o "'"
      [] v.k = "list" -> "[" \o JoinRepr(v.e) \o "]"
      [] v.k = "dict" -> "{" \o JoinRepr(v.e) \o "}"
      [] OTHER -> v.k

PyStrOf(v) == IF v.k = "str" THEN v.s ELSE PyRepr(v)

----------------------------------------------------------------------------
(* Python operators on values.                                             *)

RECURSIVE StrRepeat(_, _)
StrRepeat(s, n) == IF n <= 0 THEN "" ELSE s \o StrRepeat(s, n - 1)

RECURSIVE SeqRepeat(_, _)
SeqRepeat(e, n) == IF n <= 0 THEN <<>> ELSE e \o SeqRepeat(e, n - 1)

\* a + b
PyAdd(a, b) ==
    CASE IsStr(a) /\ IsStr(b) -> PyStr(a.s \o b.s)
      [] IsInt(a) /\ IsInt(b) -> PyInt(a.n + b.n)
      [] IsNum(a) /\ IsNum(b) /\ ~(IsInt(a) /\ IsInt(b)) ->
            PyFloat(a.n * b.d + b.n * a.d, a.d * b.d)
      [] a.k = "list" /\ b.k = "list" -> PyList(a.e \o b.e)
      [] OTHER -> Raise("TypeError")

\* a - b
PySub(a, b) ==
    CASE IsInt(a) /\ IsInt(b) -> PyInt(a.n - b.n)
      [] IsNum(a) /\ IsNum(b) /\ ~(IsInt(a) /\ IsInt(b)) ->
            PyFloat(a.n * b.d - b.n * a.d, a.d * b.d)
      [] OTHER -> Raise("TypeError")

\* a * b
PyMul(a, b) ==
    CASE IsInt(a) /\ IsInt(b) -> PyInt(a.n * b.n)
      [] IsNum(a) /\ IsNum(b) /\ ~(IsInt(a) /\ IsInt(b)) ->
            PyFloat(a.n * b.n, a.d * b.d)
      [] IsStr(a) /\ IsInt(b) -> PyStr(StrRepeat(a.s, b.n))
      [] IsInt(a) /\ IsStr(b) -> PyStr(StrRepeat(b.s, a.n))
      [] a.k = "list" /\ IsInt(b) -> PyList(SeqRepeat(a.e, b.n))
      [] IsInt(a) /\ b.k = "list" -> PyList(SeqRepeat(b.e, a.n))
      [] OTHER -> Raise("TypeError")

\* a / b, b not zero
PyTrueDiv(a, b) ==
    IF IsNum(a) /\ IsNum(b) THEN PyFloat(a.n * b.d, a.d * b.n)
    ELSE Raise("TypeError")

\* b == 0
PyEqZero(b) == IsNum(b) /\ b.n = 0

RECURSIVE Isqrt(_)
Isqrt(n) ==
    IF n < 2 THEN n
    ELSE LET r == 2 * Isqrt(n \div 4)
         IN  IF (r + 1) * (r + 1) <= n THEN r + 1 ELSE r

IsSquare(n) == Isqrt(n) * Isqrt(n) = n

\* math.sqrt(a), a a number >= 0: exact for a quotient of squares,
\* rounded down to a thousandth otherwise (to a hundredth or to a whole
\* number for the larger arguments, which keeps the integers of the
\* computation within 32 bits)
PySqrt(a) ==
    IF IsSquare(a.n) /\ IsSquare(a.d) THEN PyFloat(Isqrt(a.n), Isqrt(a.d))
    ELSE IF a.n < 2000 THEN PyFloat(Isqrt((a.n * 1000000) \div a.d), 1000)
    ELSE IF a.n < 200000 THEN PyFloat(Isqrt((a.n * 10000) \div a.d), 100)
    ELSE PyFloat(Isqrt(a.n \div a.d), 1)

----------------------------------------------------------------------------
(* The postfix evaluator: MyTransformer._apply_op and MyTransformer._calc. *)
(* An evaluation state is [err, stack]: err = "" while nothing was raised. *)

\* stack.append(r), or the exception r propagates
Push(rest, r) ==
    IF IsError(r) THEN [err |-> r.s, stack |-> rest]
    ELSE [err |-> "", stack |-> Append(rest, r)]

\* variant of OpAdd: concatenates only two strings
OpAdd_bothstr(a, b) ==
    IF IsStr(a) /\ IsStr(b) THEN PyStr(PyStrOf(a) \o PyStrOf(b))
    ELSE PyAdd(a, b)

\* op == '+'
OpAdd(a, b) ==
    IF IsStr(a) \/ IsStr(b) THEN PyStr(PyStrOf(a) \o PyStrOf(b))
    ELSE PyAdd(a, b)

\* variant of OpSub: the operands taken in the order they are popped
OpSub_swapped(a, b) == PySub(b, a)

\* op == '-'
OpSub(a, b) == PySub(a, b)

\* variant of OpMul: the string must be the first operand
OpMul_oneway(a, b) ==
    IF IsStr(a) /\ IsInt(b) THEN PyMul(a, b)
    ELSE IF IsInt(a) /\ IsStr(b) THEN Raise("TypeError")
    ELSE PyMul(a, b)

\* op == '*'
OpMul(a, b) ==
    IF IsStr(a) /\ IsInt(b) THEN PyMul(a, b)
    ELSE IF IsInt(a) /\ IsStr(b) THEN PyMul(b, a)
    ELSE PyMul(a, b)

\* variant of OpDiv: an exact quotient of integers stays an integer
OpDiv_exact(a, b) ==
    IF PyEqZero(b) THEN Raise("DivisionByZero")
    ELSE IF IsInt(a) /\ IsInt(b) /\ a.n % b.n = 0 THEN PyInt(a.n \div b.n)
    ELSE PyTrueDiv(a, b)

\* op == '/'
OpDiv(a, b) ==
    IF PyEqZero(b) THEN Raise("DivisionByZero")
    ELSE PyTrueDiv(a, b)

\* variant of OpSqrt: the root of a perfect square stays an integer
OpSqrt_exact(a) ==
    IF ~IsNum(a) THEN Raise("TypeError")
    ELSE IF a.n < 0 THEN Raise("NegativeOperand")
    ELSE IF a.d = 1 /\ IsSquare(a.n) THEN PyInt(Isqrt(a.n))
    ELSE PySqrt(a)

\* op == 'sqrt': a < 0 and math.sqrt(a) are defined for numbers only
OpSqrt(a) ==
    IF ~IsNum(a) THEN Raise("TypeError")
    ELSE IF a.n < 0 THEN Raise("NegativeOperand")
    ELSE PySqrt(a)

\* variant of OpLen: a mapping has no length
OpLen_nodict(a) ==
    IF a.k \in {"list", "str"}
    THEN PyInt(IF a.k = "str" THEN Len(a.s) ELSE Len(a.e))
    ELSE Raise("UnsupportedLenTarget")

\* op == 'len'
OpLen(a) ==
    IF a.k \in {"list", "dict", "str"}
    THEN PyInt(IF a.k = "str" THEN Len(a.s) ELSE Len(a.e))
    ELSE Raise("UnsupportedLenTarget")

_apply_op(op, stack) ==
    IF op \in {"+", "-", "*", "/"} THEN
        IF Len(stack) < 2 THEN [err |-> "InsufficientOperands", stack |-> stack]
        ELSE LET b == stack[Len(stack)]
                 a == stack[Len(stack) - 1]
                 rest == SubSeq(stack, 1, Len(stack) - 2)
             IN  CASE op = "+" -> Push(rest, OpAdd(a, b))
                   [] op = "-" -> Push(rest, OpSub(a, b))
                   [] op = "*" -> Push(rest, OpMul(a, b))
                   [] op = "/" -> Push(rest, OpDiv(a, b))
    ELSE IF op = "sqrt" THEN
        IF stack = <<>> THEN [err |-> "InsufficientOperands", stack |-> stack]
        ELSE Push(SubSeq(stack, 1, Len(stack) - 1), OpSqrt(stack[Len(stack)]))
    ELSE IF op = "len" THEN
        IF stack = <<>> THEN [err |-> "InsufficientOperands", stack |-> stack]
        ELSE Push(SubSeq(stack, 1, Len(stack) - 1), OpLen(stack[Len(stack)]))
    ELSE [err |-> "", stack |-> stack]

\* variant of CalcItem: sqrt and len are operators before they are constants
CalcItem_opfirst(i, stack, cts) ==
    IF i.k = "NAME" THEN
        IF i.s \in {"sqrt", "len"} THEN _apply_op(i.s, stack)
        ELSE IF HasKey(cts, i.s) THEN [err |-> "", stack |-> Append(stack, Get(cts, i.s))]
        ELSE [err |-> "UnknownConstant", stack |-> stack]
    ELSE IF i.k = "OPERATION" THEN _apply_op(i.s, stack)
    ELSE [err |-> "", stack |-> Append(stack, i)]

\* one iteration of the loop of _calc over item i
CalcItem(i, stack, cts) ==
    IF i.k = "NAME" THEN
        IF HasKey(cts, i.s) THEN [err |-> "", stack |-> Append(stack, Get(cts, i.s))]
        ELSE IF i.s \in {"sqrt", "len"} THEN _apply_op(i.s, stack)
        ELSE [err |-> "UnknownConstant", stack |-> stack]
    ELSE IF i.k = "OPERATION" THEN _apply_op(i.s, stack)
    ELSE [err |-> "", stack |-> Append(stack, i)]

\* variant of CalcEnd: only an empty stack is refused
CalcEnd_top(stack) ==
    IF Len(stack) < 1 THEN Raise("MalformedExpression") ELSE stack[Len(stack)]

\* the check after the loop of _calc
CalcEnd(stack) ==
    IF Len(stack) # 1 THEN Raise("MalformedExpression") ELSE stack[1]

RECURSIVE CalcLoop(_, _, _)
CalcLoop(items, stack, cts) ==
    IF items = <<>> THEN [err |-> "", stack |-> stack]
    ELSE LET r == CalcItem(items[1], stack, cts)
         IN  IF r.err # "" THEN r ELSE CalcLoop(Tail(items), r.stack, cts)

_calc(items, cts) ==
    LET r == CalcLoop(items, <<>>, cts)
    IN  IF r.err # "" THEN Raise(r.err) ELSE CalcEnd(r.stack)

----------------------------------------------------------------------------
(* The terminals of `grammar` and the contextual lexer.                    *)

Letters == "abcdefghijklmnopqrstuvwxyzABCDEFGHIJKLMNOPQRSTUVWXYZ"
Digits == "0123456789"

CharAt(w, i) == SubSeq(w, i, i)
InChars(c, chars) == \E j \in 1..Len(chars) : CharAt(chars, j) = c

\* the literal of an anonymous terminal, "" for a terminal given by a pattern
Literal(term) ==
    CASE term = "GLOBAL" -> "global"
      [] term = "LIST" -> "list"
      [] term = "LSQB" -> "["
      [] term = "RSQB" -> "]"
      [] term = "ARROW" -> "=>"
      [] term = "EQUAL" -> "="
      [] term = "SEMICOLON" -> ";"
      [] term = "COMMA" -> ","
      [] term = "LPAR" -> "("
      [] term = "RPAR" -> ")"
      [] term = "CIRCUMFLEX" -> "^"
      [] term = "LBRACE" -> "{"
      [] term = "RBRACE" -> "}"
      [] OTHER -> ""

\* the whole lexeme w matches the pattern of the terminal
Matches(term, w) ==
    CASE term = "NAME" -> Len(w) >= 1 /\ \A i \in 1..Len(w) : InChars(CharAt(w, i), Letters)
      [] term = "NUMBER" -> Len(w) >= 1 /\ \A i \in 1..Len(w) : InChars(CharAt(w, i), Digits)
      [] term \in {"STRING", "ESCAPED_STRING"} ->
            /\ Len(w) >= 2
            /\ CharAt(w, 1) = "'"
            /\ CharAt(w, Len(w)) = "'"
            /\ \A i \in 2..(Len(w) - 1) : CharAt(w, i) # "'"
      [] term = "BOOL" -> w \in {"true", "false"}
      [] term = "OPERATION" -> w \in {"+", "-", "*", "/", "sqrt", "len"}
      [] OTHER -> w = Literal(term)

\* The order in which the lexer tries the terminals a parser state accepts.
\* No terminal has a priority, so the patterns are ordered by the longest
\* text they can match: NAME (unbounded) comes before BOOL and OPERATION.
\* A keyword literal that NAME also matches is recognised by the keyword.
TermOrder ==
    <<"GLOBAL", "LIST", "LSQB", "RSQB", "ARROW", "EQUAL", "SEMICOLON", "COMMA",
      "LPAR", "RPAR", "CIRCUMFLEX", "LBRACE", "RBRACE",
      "NAME", "NUMBER", "STRING", "ESCAPED_STRING", "BOOL", "OPERATION">>

\* the lexemes the documents of the model are made of
Words ==
    {"global", "[", "]", "=>", "=", ";", ",", "(", "list", ")", "^", "{", "}",
     "a", "true", "2", "+", "@"}

\* the words of the grammar that the documents of the model use as
\* keywords only, never as identifiers
Keywords == {"global", "list"}

\* the lexemes the expressions of the evaluator runs are made of
CalcWords ==
    {"0", "5", "10", "'ab'", "+", "-", "*", "/", "sqrt", "len", "true",
     "neg", "flt", "lst", "map", "yes", "nope"}

\* the statements the scripted documents are made of
Statements ==
    {<<"global", "a", "=", "1", ";">>,
     <<"global", "a", "=", "2", ";">>,
     <<"global", "a", "=", "(", "list", "1", "2", ")", ";">>,
     <<"global", "b", "=", "a", ";">>,
     <<"global", "b", "=", "^", "{", "a", "2", "*", "}", ";">>,
     <<"global", "b", "=", "^", "{", "a", "a", "+", "}", ";">>,
     <<"[", "x", "=>", "b", ",", "y", "=>", "a", "]">>,
     <<"[", "x", "=>", "^", "{", "a", "1", "-", "}", "]">>,
     <<"[", "x", "=>", "]">>}

\* the lexemes of the scripted documents
DocWords == UNION {{st[i] : i \in 1..Len(st)} : st \in Statements}

\* for each lexeme, the terminals whose pattern matches it
MatchTable ==
    [w \in Words \cup CalcWords \cup DocWords |->
        {i \in 1..Len(TermOrder) : Matches(TermOrder[i], w)}]

\* the terminal the lexeme w is given in a state accepting `accepts`,
\* "NONE" when the lexer raises UnexpectedCharacters / UnexpectedToken
Lex(w, accepts) ==
    LET cands == {i \in MatchTable[w] : TermOrder[i] \in accepts}
    IN  IF cands = {} THEN "NONE"
        ELSE TermOrder[CHOOSE i \in cands : \A j \in cands : i <= j]

----------------------------------------------------------------------------
(* The callbacks of MyTransformer.                                         *)

DigitVal(c) == CHOOSE dg \in 0..9 : DigitChar(dg) = c

RECURSIVE ParseInt(_)
ParseInt(w) ==
    IF Len(w) = 1 THEN DigitVal(w)
    ELSE ParseInt(SubSeq(w, 1, Len(w) - 1)) * 10 + DigitVal(CharAt(w, Len(w)))

NAME(token) == Token("NAME", token)
NUMBER(token) == PyInt(ParseInt(token))
STRING_(token) == PyStr(SubSeq(token, 2, Len(token) - 1))
ESCAPED_STRING(token) == PyStr(SubSeq(token, 2, Len(token) - 1))
BOOL(token) == PyBool(token = "true")
OPERATION(token) == Token("OPERATION", token)

\* the terminal callback applied when the parser shifts the token
TermValue(term, w) ==
    CASE term = "NAME" -> NAME(w)
      [] term = "NUMBER" -> NUMBER(w)
      [] term = "STRING" -> STRING_(w)
      [] term = "ESCAPED_STRING" -> ESCAPED_STRING(w)
      [] term = "BOOL" -> BOOL(w)
      [] term = "OPERATION" -> OPERATION(w)
      [] OTHER -> Token(term, w)

PyTuple(key, v) == Mk("tuple", 0, 1, key, <<v>>)

RECURSIVE StartLoop(_, _)
StartLoop(items, res) ==
    IF items = <<>> THEN res
    ELSE StartLoop(Tail(items),
                   IF items[1].k = "dict" /\ items[1].e # <<>>
                   THEN Update(res, items[1]) ELSE res)

start(items) == StartLoop(items, PyDict(<<>>))

dict(items) ==
    IF items # <<>> /\ items[1].k # "None" THEN items[1] ELSE PyDict(<<>>)

RECURSIVE DictItemsLoop(_, _)
DictItemsLoop(items, res) ==
    IF items = <<>> THEN res
    ELSE DictItemsLoop(Tail(items),
                       IF items[1].k = "tuple"
                       THEN SetItem(res, items[1].s, items[1].e[1]) ELSE res)

\* variant of dict_items: a key keeps its first value
dict_items_first(items) ==
    DictItemsLoop([i \in 1..Len(items) |-> items[Len(items) + 1 - i]], PyDict(<<>>))

dict_items(items) == DictItemsLoop(items, PyDict(<<>>))

dict_item(items) ==
    IF Len(items) >= 2 THEN PyTuple(items[1].s, items[2]) ELSE PyNone

\* variant of array_items: the elements in reverse order
array_items_reversed(items) == PyList([i \in 1..Len(items) |-> items[Len(items) + 1 - i]])

array_items(items) == PyList(items)

array(items) ==
    IF \E i \in 1..Len(items) : items[i].k = "list"
    THEN items[CHOOSE i \in 1..Len(items) :
                  /\ items[i].k = "list"
                  /\ \A j \in 1..(i - 1) : items[j].k # "list"]
    ELSE PyList(<<>>)

array_value(items) == IF items # <<>> THEN items[1] ELSE PyNone

\* variant of const_decl: the declaration is not stored
const_decl_lost(items, cts) == cts

\* variant of const_decl: a constant is a reference, so the constants that
\* were given the old value of the name follow its new value
const_decl_linked(items, cts) ==
    IF Len(items) >= 2 /\ HasKey(cts, items[1].s)
    THEN PyDict([i \in 1..Len(cts.e) |->
                    IF cts.e[i].e[1] = Get(cts, items[1].s)
                    THEN Entry(cts.e[i].s, items[2]) ELSE cts.e[i]])
    ELSE IF Len(items) >= 2 THEN SetItem(cts, items[1].s, items[2])
    ELSE cts

\* variant of const_decl: the value is stored under a second name as well
const_decl_twice(items, cts) ==
    IF Len(items) >= 2
    THEN SetItem(SetItem(cts, items[1].s, items[2]), "x", items[2])
    ELSE cts

\* the constant table after const_decl; the callback itself returns {}
const_decl(items, cts) ==
    IF Len(items) >= 2 THEN SetItem(cts, items[1].s, items[2]) ELSE cts

expr_items(items) == PyList(SelectSeq(items, LAMBDA i : i.k # "None"))

const_expr(items, cts) ==
    IF items # <<>> /\ items[1].k # "None" THEN _calc(items[1].e, cts) ELSE PyNone

simple_value(items) == IF items # <<>> THEN items[1] ELSE PyNone

\* variant of value: an unknown name gives None instead of an error
value_noraise(items, cts) ==
    IF items = <<>> THEN PyNone
    ELSE LET i == items[1]
         IN  IF i.k = "NAME" THEN
                 IF HasKey(cts, i.s) THEN Get(cts, i.s)
                 ELSE IF i.s \in {"true", "false"} THEN BOOL(i.s)
                 ELSE PyNone
             ELSE i

value(items, cts) ==
    IF items = <<>> THEN PyNone
    ELSE LET i == items[1]
         IN  IF i.k = "NAME" THEN
                 IF HasKey(cts, i.s) THEN Get(cts, i.s)
                 ELSE IF i.s \in {"true", "false"} THEN BOOL(i.s)
                 ELSE Raise("UnknownConstant")
             ELSE i

----------------------------------------------------------------------------
(* The LALR(1) parser with the transformer applied inline                  *)
(* (Lark(grammar, parser='lalr', transformer=self.trans)): a callback runs *)
(* when its rule is reduced, and a rule is reduced when the token after    *)
(* it has been read.  The parser stack is kept as the unfinished           *)
(* constructs, innermost last:                                             *)
(*   start                    the document, items = finished top items     *)
(*   decl   name eq value semi done                                        *)
(*   dict   open arrow value item comma closed                             *)
(*   array  list items closed                                              *)
(*   expr   brace items closed                                             *)
(*   name, simple             a NAME / a literal in a value position       *)

Frame(t, st, s, items) == [t |-> t, st |-> st, s |-> s, items |-> items]

ValueFollow == {"SEMICOLON", "COMMA", "RSQB"}
TopFollow == {"GLOBAL", "LSQB", "$END"}
ValueStart == {"NUMBER", "STRING", "BOOL", "NAME", "LPAR", "LSQB", "CIRCUMFLEX"}

\* The terminals the parser state on top of the stack has an action for.
\* LALR merges the states that end a value: after a NAME or a `}` the
\* state reduces on all of ValueFollow whatever the enclosing construct.
\* (The states after a literal and after `]` are merged with more
\* contexts still; on the extra terminals they only reduce callbacks
\* without effect and then reject the token, as they do here at once.)
Accepts(stack) ==
    LET top == stack[Len(stack)]
    IN  CASE top.t = "start" -> TopFollow
          [] top.t = "decl" ->
                (CASE top.st = "name" -> {"NAME"}
                   [] top.st = "eq" -> {"EQUAL"}
                   [] top.st = "value" -> ValueStart
                   [] top.st = "semi" -> {"SEMICOLON"}
                   [] top.st = "done" -> TopFollow)
          [] top.t = "dict" ->
                (CASE top.st = "open" -> {"NAME", "RSQB"}
                   [] top.st = "arrow" -> {"ARROW"}
                   [] top.st = "value" -> ValueStart
                   [] top.st = "item" -> {"COMMA", "RSQB"}
                   [] top.st = "comma" -> {"NAME"}
                   [] top.st = "closed" ->
                         IF stack[Len(stack) - 1].t = "start" THEN TopFollow
                         ELSE ValueFollow)
          [] top.t = "array" ->
                (CASE top.st = "list" -> {"LIST"}
                   [] top.st = "items" -> {"NUMBER", "ESCAPED_STRING", "BOOL", "RPAR"}
                   [] top.st = "closed" -> ValueFollow)
          [] top.t = "expr" ->
                (CASE top.st = "brace" -> {"LBRACE"}
                   [] top.st = "items" ->
                         {"NUMBER", "STRING", "BOOL", "NAME", "OPERATION", "RBRACE"}
                   [] top.st = "closed" -> ValueFollow)
          [] top.t \in {"name", "simple"} -> ValueFollow

\* log entries
UseEvent(where, name, outcome) == Mk(where, 0, 1, name, <<outcome>>)
DeclEvent(name, v) == Mk("decl", 0, 1, name, <<v>>)

\* the NAME items _calc handles before it returns or raises, in order
RECURSIVE CalcUses(_, _, _)
CalcUses(items, stack, cts) ==
    IF items = <<>> THEN <<>>
    ELSE LET r == CalcItem(items[1], stack, cts)
             ev == IF items[1].k # "NAME" THEN <<>>
                   ELSE IF r.err = "UnknownConstant"
                        THEN <<UseEvent("use_expr", items[1].s, Raise(r.err))>>
                   ELSE IF HasKey(cts, items[1].s)
                        THEN <<UseEvent("use_expr", items[1].s, Get(cts, items[1].s))>>
                   ELSE <<UseEvent("use_expr", items[1].s, Token("OPERATION", items[1].s))>>
         IN  IF r.err # "" THEN ev ELSE ev \o CalcUses(Tail(items), r.stack, cts)

Pop(stack) == SubSeq(stack, 1, Len(stack) - 1)
SetTop(stack, f) == Append(Pop(stack), f)

\* a finished value r becomes a child of the construct that waits for it
Deliver(stack, r) ==
    LET par == stack[Len(stack)]
    IN  IF par.t = "decl"
        THEN SetTop(stack, Frame("decl", "semi", par.s, Append(par.items, r)))
        ELSE SetTop(stack, Frame("dict", "item", "",
                     Append(par.items, dict_item(<<NAME(par.s), r>>))))

\* a finished top-level item becomes a child of start
DeliverTop(stack, r) ==
    <<Frame("start", "", "", Append(stack[1].items, r))>>

\* the reductions the lookahead terminal T triggers, with their callbacks;
\* Reduced: the callbacks of a value gave r, an exception ends the parse
RECURSIVE Reduce(_, _), Reduced(_, _, _, _)
Reduced(P, T, r, lg) ==
    IF IsError(r) THEN [P EXCEPT !.err = r.s, !.log = lg]
    ELSE Reduce([P EXCEPT !.stack = Deliver(Pop(P.stack), r), !.log = lg], T)

Reduce(P, T) ==
    LET stack == P.stack
        top == stack[Len(stack)]
    IN  CASE top.t = "name" ->
                Reduced(P, T, value(top.items, P.cts),
                        Append(P.log, UseEvent("use_value", top.s, value(top.items, P.cts))))
          [] top.t = "simple" ->
                Reduced(P, T, value(<<simple_value(top.items)>>, P.cts), P.log)
          [] top.t = "expr" /\ top.st = "closed" ->
                Reduced(P, T,
                        value(<<const_expr(<<expr_items(top.items)>>, P.cts)>>, P.cts),
                        P.log \o CalcUses(expr_items(top.items).e, <<>>, P.cts))
          [] top.t = "array" /\ top.st = "closed" ->
                Reduced(P, T, value(<<array(<<array_items(top.items)>>)>>, P.cts), P.log)
          [] top.t = "dict" /\ top.st = "closed" ->
                IF Len(stack) = 2
                THEN [P EXCEPT !.stack = DeliverTop(stack, dict(<<dict_items(top.items)>>))]
                ELSE Reduced(P, T, value(<<dict(<<dict_items(top.items)>>)>>, P.cts), P.log)
          [] top.t = "decl" /\ top.st = "done" ->
                [P EXCEPT !.stack = DeliverTop(stack, PyDict(<<>>)),
                          !.cts = const_decl(top.items, P.cts),
                          !.log = Append(P.log, DeclEvent(top.s, top.items[2]))]
          [] OTHER -> P

\* the construct a value starts with
ValueFrame(T, w) ==
    CASE T \in {"NUMBER", "STRING", "BOOL"} -> Frame("simple", "", "", <<TermValue(T, w)>>)
      [] T = "NAME" -> Frame("name", "", w, <<TermValue(T, w)>>)
      [] T = "LPAR" -> Frame("array", "list", "", <<>>)
      [] T = "LSQB" -> Frame("dict", "open", "", <<>>)
      [] T = "CIRCUMFLEX" -> Frame("expr", "brace", "", <<>>)

\* the parser shifts the terminal T (lexeme w), T accepted by the top state
Shift(stack, T, w) ==
    LET top == stack[Len(stack)]
    IN  CASE top.t = "start" ->
                IF T = "GLOBAL" THEN Append(stack, Frame("decl", "name", "", <<>>))
                ELSE Append(stack, Frame("dict", "open", "", <<>>))
          [] top.t = "decl" ->
                (CASE top.st = "name" -> SetTop(stack, Frame("decl", "eq", w, <<TermValue(T, w)>>))
                   [] top.st = "eq" -> SetTop(stack, [top EXCEPT !.st = "value"])
                   [] top.st = "value" -> Append(stack, ValueFrame(T, w))
                   [] top.st = "semi" -> SetTop(stack, [top EXCEPT !.st = "done"]))
          [] top.t = "dict" ->
                (CASE top.st \in {"open", "comma"} /\ T = "NAME" ->
                         SetTop(stack, [top EXCEPT !.st = "arrow", !.s = w])
                   [] top.st \in {"open", "item"} /\ T = "RSQB" ->
                         SetTop(stack, [top EXCEPT !.st = "closed"])
                   [] top.st = "arrow" -> SetTop(stack, [top EXCEPT !.st = "value"])
                   [] top.st = "value" -> Append(stack, ValueFrame(T, w))
                   [] top.st = "item" /\ T = "COMMA" ->
                         SetTop(stack, [top EXCEPT !.st = "comma"]))
          [] top.t = "array" ->
                (CASE top.st = "list" -> SetTop(stack, [top EXCEPT !.st = "items"])
                   [] top.st = "items" /\ T = "RPAR" ->
                         SetTop(stack, [top EXCEPT !.st = "closed"])
                   [] top.st = "items" /\ T # "RPAR" ->
                         SetTop(stack, [top EXCEPT !.items =
                             Append(top.items, array_value(<<TermValue(T, w)>>))]))
          [] top.t = "expr" ->
                (CASE top.st = "brace" -> SetTop(stack, [top EXCEPT !.st = "items"])
                   [] top.st = "items" /\ T = "RBRACE" ->
                         SetTop(stack, [top EXCEPT !.st = "closed"])
                   [] top.st = "items" /\ T \in {"NUMBER", "STRING", "BOOL"} ->
                         SetTop(stack, [top EXCEPT !.items =
                             Append(top.items, simple_value(<<TermValue(T, w)>>))])
                   [] top.st = "items" /\ T \in {"NAME", "OPERATION"} ->
                         SetTop(stack, [top EXCEPT !.items =
                             Append(top.items, TermValue(T, w))]))

\* the terminal the lexer hands to the parser for the lexeme w
Terminal(stack, w, atEnd) ==
    IF atEnd THEN (IF "$END" \in Accepts(stack) THEN "$END" ELSE "NONE")
    ELSE Lex(w, Accepts(stack))

\* The parser reads one lexeme (atEnd: the end of the text).  P is
\* [stack, cts, log, err, res]; err = "" while the parse goes on, "$DONE"
\* when start has been reduced and res is its result.
\* Parse: R is the parser after the reductions the terminal T triggered
Parse(R, T, w, atEnd) ==
    IF R.err # "" THEN R
    ELSE IF T \notin Accepts(R.stack) THEN [R EXCEPT !.err = "SyntaxError"]
    ELSE IF atEnd THEN [R EXCEPT !.err = "$DONE", !.res = start(R.stack[1].items)]
    ELSE [R EXCEPT !.stack = Shift(R.stack, T, w)]

\* Lexed: the lexer gave the terminal T for the lexeme
Lexed(P, T, w, atEnd) ==
    IF T = "NONE" THEN [P EXCEPT !.err = "SyntaxError"]
    ELSE Parse(Reduce(P, T), T, w, atEnd)

ParseToken(P, w, atEnd) == Lexed(P, Terminal(P.stack, w, atEnd), w, atEnd)

----------------------------------------------------------------------------
(* Converter sessions: Converter.__init__ and Converter.parse_content.     *)
(* The text is the input after the block comments have been removed.       *)

Sessions == {"c1", "c2"}

\* MyTransformer.__init__
NewConsts == PyDict(<<>>)

\* variant of CallConsts: every call starts with an empty table
CallConsts_reset(cts) == PyDict(<<>>)

\* the constant table the transformer works on when a call starts:
\* parse_content hands the text to the session's parser, whose transformer
\* keeps the table of the earlier calls
CallConsts(cts) == cts

\* how parse_content ends: LarkError and ValueError are caught and raised
\* again as ValueError, anything else raised by a callback propagates
CallStatus(err) ==
    CASE err = "$DONE" -> "ok"
      [] err = "SyntaxError" -> "SyntaxError"
      [] err = "TypeError" -> "TypeError"
      [] OTHER -> "EvaluationError"

\* the bounds of the model on the constructs in progress
Pending(f) == IF f.st \in {"arrow", "value"} THEN 1 ELSE 0
WithinBounds(stack) ==
    /\ Len(stack) <= MaxDepth + 1
    /\ Len(stack[1].items) + (IF Len(stack) > 1 THEN 1 ELSE 0) <= MaxTop
    /\ \A i \in 2..Len(stack) :
          CASE stack[i].t = "expr" -> Len(stack[i].items) <= MaxExprLen
            [] stack[i].t = "array" -> Len(stack[i].items) <= MaxArrayLen
            [] stack[i].t = "dict" -> Len(stack[i].items) + Pending(stack[i]) <= MaxEntries
            [] OTHER -> TRUE

InitCalc ==
    /\ cConsts = PyDict(<<>>)
    /\ cStack = <<>>
    /\ cTok = PyNone
    /\ cN = 0
    /\ cState = "idle"
    /\ cRes = PyNone

InitParser ==
    /\ consts = [s \in Sessions |-> NewConsts]
    /\ active = "c1"
    /\ pstack = <<Frame("start", "", "", <<>>)>>
    /\ text = <<>>
    /\ status = "idle"
    /\ errkind = ""
    /\ result = PyNone
    /\ log = <<>>
    /\ nparses = 0
    /\ nwords = 0
    /\ base = NewConsts

Init == InitParser /\ InitCalc

\* parse_content is called on Converter s
BeginParse(s) ==
    /\ status # "parsing"
    /\ nparses < MaxParses
    /\ nparses = 0 => s = "c1"
    /\ base' = CallConsts(consts[s])
    /\ active' = s
    /\ consts' = [consts EXCEPT ![s] = CallConsts(consts[s])]
    /\ pstack' = <<Frame("start", "", "", <<>>)>>
    /\ text' = <<>>
    /\ status' = "parsing"
    /\ errkind' = ""
    /\ result' = PyNone
    /\ log' = <<>>
    /\ nparses' = nparses + 1
    /\ UNCHANGED nwords
    /\ UNCHANGED calcVars

\* the parser of the active session, as a record
Running ==
    [stack |-> pstack, cts |-> consts[active], log |-> log, err |-> "", res |-> PyNone]

\* variant of Settle: a call that raises leaves the constant table as it
\* was when the call started
Settle_rollback(Q) ==
    /\ Q.err = "" => WithinBounds(Q.stack)
    /\ consts' = [consts EXCEPT ![active] =
                      IF Q.err \in {"", "$DONE"} THEN Q.cts ELSE base]
    /\ pstack' = Q.stack
    /\ log' = Q.log
    /\ status' = IF Q.err = "" THEN "parsing" ELSE CallStatus(Q.err)
    /\ errkind' = IF Q.err = "$DONE" THEN "" ELSE Q.err
    /\ result' = Q.res
    /\ UNCHANGED <<active, nparses, base>>
    /\ UNCHANGED calcVars

\* the session takes over the parser Q: the call goes on, returns or raises
Settle(Q) ==
    /\ Q.err = "" => WithinBounds(Q.stack)
    /\ consts' = [consts EXCEPT ![active] = Q.cts]
    /\ pstack' = Q.stack
    /\ log' = Q.log
    /\ status' = IF Q.err = "" THEN "parsing" ELSE CallStatus(Q.err)
    /\ errkind' = IF Q.err = "$DONE" THEN "" ELSE Q.err
    /\ result' = Q.res
    /\ UNCHANGED <<active, nparses, base>>
    /\ UNCHANGED calcVars

\* the effect of one parser step on the session
Advance(w, atEnd) == Settle(ParseToken(Running, w, atEnd))

\* the parser reads the next lexeme of the text
Feed(w) ==
    /\ status = "parsing"
    /\ nwords < (IF nparses = 1 THEN MaxText ELSE MaxTextLater)
    /\ ~(w \in Keywords /\ Terminal(pstack, w, FALSE) = "NAME")
    /\ Advance(w, FALSE)
    /\ text' = IF status' = "parsing" THEN Append(text, w) ELSE text
    /\ nwords' = nwords + 1

\* the parser reaches the end of the text
EndOfText ==
    /\ status = "parsing"
    /\ Advance("$END", TRUE)
    /\ UNCHANGED <<text, nwords>>

Next ==
    \/ \E s \in Sessions : BeginParse(s)
    \/ \E w \in Words : Feed(w)
    \/ EndOfText

Spec == Init /\ [][Next]_vars

----------------------------------------------------------------------------
(* Scripted documents: parse_content on texts made of whole statements,    *)
(* read lexeme by lexeme like any other text.                              *)

IsPrefix(p, q) == Len(p) <= Len(q) /\ SubSeq(q, 1, Len(p)) = p

\* t is the beginning of a sequence of statements
RECURSIVE InScript(_)
InScript(t) ==
    \/ t = <<>>
    \/ \E st \in Statements :
          \/ IsPrefix(t, st)
          \/ IsPrefix(st, t) /\ InScript(SubSeq(t, Len(st) + 1, Len(t)))

\* the parser reads the next lexeme of a scripted document
FeedScript(w) ==
    /\ status = "parsing"
    /\ nwords < (IF nparses = 1 THEN MaxDocText ELSE MaxDocLater)
    /\ InScript(Append(text, w))
    /\ Advance(w, FALSE)
    /\ text' = IF status' = "parsing" THEN Append(text, w) ELSE text
    /\ nwords' = nwords + 1

NextDoc ==
    \/ \E s \in Sessions : BeginParse(s)
    \/ \E w \in DocWords : FeedScript(w)
    \/ EndOfText

SpecDoc == Init /\ [][NextDoc]_vars

----------------------------------------------------------------------------
(* Evaluator runs: one call of _calc, one loop iteration per step, on the  *)
(* items the lexer and the terminal callbacks make of the lexemes of an    *)
(* expression.                                                             *)

ExprAccepts == Accepts(<<Frame("start", "", "", <<>>), Frame("expr", "items", "", <<>>)>>)

\* the item of expr_items for the lexeme w
ExprItem(w) == TermValue(Lex(w, ExprAccepts), w)

\* constant tables earlier declarations can have built:
\*   global neg = ^{0 2 -};  global flt = ^{5 10 /};  global lst = (list 2 's');
\*   global map = [a => 2];  global yes = true;
\* and
\*   global sqrt = 5;  global len = 'ab';
CalcTables ==
    {PyDict(<<>>),
     PyDict(<<Entry("neg", PyInt(-2)), Entry("flt", PyFloat(1, 2)),
              Entry("lst", PyList(<<PyInt(2), PyStr("s")>>)),
              Entry("map", PyDict(<<Entry("a", PyInt(2))>>)),
              Entry("yes", PyBool(TRUE))>>),
     PyDict(<<Entry("sqrt", PyInt(5)), Entry("len", PyStr("ab"))>>)}

InitCalcRun ==
    /\ InitParser
    /\ cConsts \in CalcTables
    /\ cStack = <<>>
    /\ cTok = PyNone
    /\ cN = 0
    /\ cState = "loop"
    /\ cRes = PyNone

\* one iteration of the loop of _calc
CalcStep(w) ==
    /\ cState = "loop"
    /\ cN < MaxCalcLen
    /\ LET r == CalcItem(ExprItem(w), cStack, cConsts)
       IN  /\ cStack' = r.stack
           /\ cState' = IF r.err = "" THEN "loop" ELSE "raised"
           /\ cRes' = IF r.err = "" THEN cRes ELSE Raise(r.err)
    /\ cTok' = ExprItem(w)
    /\ cN' = cN + 1
    /\ UNCHANGED cConsts
    /\ UNCHANGED parserVars

\* the items are used up: the check after the loop, and the return
CalcReturn ==
    /\ cState = "loop"
    /\ LET r == CalcEnd(cStack)
       IN  /\ cState' = IF IsError(r) THEN "raised" ELSE "returned"
           /\ cRes' = r
    /\ UNCHANGED <<cConsts, cStack, cTok, cN>>
    /\ UNCHANGED parserVars

NextCalc ==
    \/ \E w \in CalcWords : CalcStep(w)
    \/ CalcReturn

SpecCalc == InitCalcRun /\ [][NextCalc]_vars

----------------------------------------------------------------------------
(* Properties of the evaluator, checked under SpecCalc.                    *)

\* the step handles the binary operator token op
BinStep(op) == cN' = cN + 1 /\ cTok' = Token("OPERATION", op)

\* the operands of a binary operator: B pushed last, A before it
OperandA == cStack[Len(cStack) - 1]
OperandB == cStack[Len(cStack)]
Below == SubSeq(cStack, 1, Len(cStack) - 2)

Pushed(v) == cState' = "loop" /\ cStack' = Append(Below, v)
Failed(kind) == cState' = "raised" /\ cRes' = Raise(kind)

IsNumber(v) == v.k \in {"int", "float"}
IsZero(v) == v.k \in {"int", "float", "bool"} /\ v.n = 0
NumSum(a, b) ==
    IF a.k = "int" /\ b.k = "int" THEN PyInt(a.n + b.n)
    ELSE PyFloat(a.n * b.d + b.n * a.d, a.d * b.d)
NumProduct(a, b) ==
    IF a.k \in {"int", "bool"} /\ b.k \in {"int", "bool"} THEN PyInt(a.n * b.n)
    ELSE PyFloat(a.n * b.n, a.d * b.d)

\* C2: when the items are used up, _calc returns the single value on the
\* stack if the stack holds exactly one value, and raises
\* MalformedExpression for every other stack size (0, 2 or more).
C2_FinalStack ==
    [][(cState = "loop" /\ cState' # "loop" /\ cN' = cN) =>
          IF Len(cStack) = 1
          THEN cState' = "returned" /\ cRes' = cStack[1]
          ELSE cState' = "raised" /\ cRes' = Raise("MalformedExpression")]_vars

\* three operands and one binary operator leave two values: the call fails
C2_Witness ==
    /\ cState = "raised"
    /\ cRes = Raise("MalformedExpression")
    /\ cN = 4
    /\ Len(cStack) = 2
    /\ cTok = Token("OPERATION", "+")

\* C3 as stated: a binary operator on a stack of at least two items always
\* pushes exactly one result, so the depth decreases by exactly one.
C3_AlwaysPushes ==
    [][\A op \in {"+", "-", "*", "/"} : BinStep(op) =>
          IF Len(cStack) < 2 THEN Failed("InsufficientOperands")
          ELSE /\ cState' = "loop"
               /\ Len(cStack') = Len(cStack) - 1
               /\ SubSeq(cStack', 1, Len(cStack) - 2) = Below]_vars

\* C3 amended: with fewer than two items the operator raises
\* InsufficientOperands; otherwise b is the top item and a the one below,
\* both are removed, and either the operation itself fails (DivisionByZero,
\* or a type error of the operand kinds) or exactly one result, a op b in
\* that order, is pushed on the unchanged rest of the stack.
C3_BinaryOperator ==
    [][\A op \in {"+", "-", "*", "/"} : BinStep(op) =>
          IF Len(cStack) < 2
          THEN Failed("InsufficientOperands") /\ cStack' = cStack
          ELSE /\ \/ cState' = "raised" /\ cRes'.s \in {"DivisionByZero", "TypeError"}
                  \/ /\ cState' = "loop"
                     /\ Len(cStack') = Len(cStack) - 1
                     /\ SubSeq(cStack', 1, Len(cStack) - 2) = Below
               /\ (OperandA.k = "int" /\ OperandB.k = "int") =>
                     CASE op = "+" -> Pushed(PyInt(OperandA.n + OperandB.n))
                       [] op = "-" -> Pushed(PyInt(OperandA.n - OperandB.n))
                       [] op = "*" -> Pushed(PyInt(OperandA.n * OperandB.n))
                       [] op = "/" -> IF OperandB.n = 0 THEN Failed("DivisionByZero")
                                      ELSE Pushed(PyFloat(OperandA.n, OperandB.n))
               /\ (op = "+" /\ OperandA.k = "str" /\ OperandB.k = "str") =>
                     Pushed(PyStr(OperandA.s \o OperandB.s))]_vars

\* 10 5 - on top of an untouched item: the result is 5 and not -5
C3_Witness ==
    /\ cState = "loop"
    /\ cN = 4
    /\ cTok = Token("OPERATION", "-")
    /\ cStack = <<PyStr("ab"), PyInt(5)>>

\* C4: `/` raises DivisionByZero when b == 0, and otherwise a pushed
\* result is a float, also when b divides a exactly.
C4_Division ==
    [][(BinStep("/") /\ Len(cStack) >= 2) =>
          IF IsZero(OperandB) THEN Failed("DivisionByZero")
          ELSE /\ cState' = "loop" => cStack'[Len(cStack')].k = "float"
               /\ (IsNumber(OperandA) /\ IsNumber(OperandB)) =>
                     Pushed(PyFloat(OperandA.n * OperandB.d, OperandA.d * OperandB.n))]_vars

\* 10 5 / gives the float 2.0
C4_Witness ==
    /\ cState = "loop"
    /\ cN = 3
    /\ cTok = Token("OPERATION", "/")
    /\ cStack = <<PyFloat(2, 1)>>

\* C9: `+` with at least one string operand pushes the textual form of a
\* followed by the textual form of b; `+` on two numbers pushes their sum.
C9_Plus ==
    [][(BinStep("+") /\ Len(cStack) >= 2) =>
          /\ (OperandA.k = "str" \/ OperandB.k = "str") =>
                Pushed(PyStr(PyStrOf(OperandA) \o PyStrOf(OperandB)))
          /\ (OperandA.k = "str" /\ OperandB.k = "int") =>
                Pushed(PyStr(OperandA.s \o IntStr(OperandB.n)))
          /\ (OperandA.k = "int" /\ OperandB.k = "str") =>
                Pushed(PyStr(IntStr(OperandA.n) \o OperandB.s))
          /\ (IsNumber(OperandA) /\ IsNumber(OperandB)) =>
                Pushed(NumSum(OperandA, OperandB))]_vars

\* 10 'ab' + gives '10ab'
C9_Witness ==
    /\ cState = "loop"
    /\ cN = 3
    /\ cTok = Token("OPERATION", "+")
    /\ cStack = <<PyStr("10ab")>>

\* C10 as stated: a string and an integer, in either order, give the string
\* repeated; every other operand combination is numeric multiplication.
C10_ElseNumeric ==
    [][(BinStep("*") /\ Len(cStack) >= 2) =>
          IF OperandA.k = "str" /\ OperandB.k = "int"
          THEN Pushed(PyStr(StrRepeat(OperandA.s, OperandB.n)))
          ELSE IF OperandA.k = "int" /\ OperandB.k = "str"
          THEN Pushed(PyStr(StrRepeat(OperandB.s, OperandA.n)))
          ELSE cState' = "loop" =>
                  /\ IsNum(OperandA) /\ IsNum(OperandB)
                  /\ Pushed(NumProduct(OperandA, OperandB))]_vars

\* C10 amended: a string s and an integer n, in either order, give s
\* repeated n times (the empty string for n <= 0); two numbers (Integer or
\* Float) give their product; of the other combinations, a Boolean acts as
\* the integer 0 or 1, an array and an integer-like operand, in either
\* order, give the array repeated, and the rest is a type error.
C10_Times ==
    [][(BinStep("*") /\ Len(cStack) >= 2) =>
          LET a == OperandA
              b == OperandB
              intlike(v) == v.k \in {"int", "bool"}
          IN  CASE a.k = "str" /\ intlike(b) -> Pushed(PyStr(StrRepeat(a.s, b.n)))
                [] intlike(a) /\ b.k = "str" -> Pushed(PyStr(StrRepeat(b.s, a.n)))
                [] IsNum(a) /\ IsNum(b) -> Pushed(NumProduct(a, b))
                [] a.k = "list" /\ intlike(b) -> Pushed(PyList(SeqRepeat(a.e, b.n)))
                [] intlike(a) /\ b.k = "list" -> Pushed(PyList(SeqRepeat(b.e, a.n)))
                [] OTHER -> Failed("TypeError")]_vars

\* 5 'ab' *: the integer first, the string repeated five times
C10_Witness ==
    /\ cState = "loop"
    /\ cN = 3
    /\ cTok = Token("OPERATION", "*")
    /\ cStack = <<PyStr("ababababab")>>

\* the step handles the name token n
NameStep(n) == cN' = cN + 1 /\ cTok' = Token("NAME", n)
\* the step applies the unary operator op: no constant has its name
UnStep(op) == NameStep(op) /\ ~HasKey(cConsts, op)

\* the operand of a unary operator and the items below it
OperandTop == cStack[Len(cStack)]
BelowTop == SubSeq(cStack, 1, Len(cStack) - 1)
PushedOnTop(v) == cState' = "loop" /\ cStack' = Append(BelowTop, v)

IsNegative(v) == v.k \in {"int", "float", "bool"} /\ v.n < 0

\* v is the square root of the number a: a float, exact when a is a
\* quotient of squares, and with the whole part of the root otherwise
IsRootOf(v, a) ==
    /\ v.k = "float"
    /\ v.n >= 0
    /\ v.n \div v.d = Isqrt(a.n \div a.d)
    /\ (IsSquare(a.n) /\ IsSquare(a.d)) => (v.n = Isqrt(a.n) /\ v.d = Isqrt(a.d))

\* C11 as stated: sqrt on an empty stack raises InsufficientOperands;
\* otherwise a negative top item raises NegativeOperand and every other
\* top item is replaced by its square root, a float, the items below it
\* staying as they are.
C11_AlwaysRoot ==
    [][UnStep("sqrt") =>
          IF cStack = <<>> THEN Failed("InsufficientOperands")
          ELSE IF IsNegative(OperandTop) THEN Failed("NegativeOperand")
          ELSE /\ cState' = "loop"
               /\ Len(cStack') = Len(cStack)
               /\ SubSeq(cStack', 1, Len(cStack) - 1) = BelowTop
               /\ cStack'[Len(cStack')].k = "float"]_vars

\* C11 amended: sqrt on an empty stack raises InsufficientOperands;
\* otherwise the top item a is removed and, when a is a number (a Boolean
\* counts as 0 or 1), a < 0 raises NegativeOperand and a >= 0 pushes the
\* square root of a as a float on the unchanged rest of the stack; when a
\* is a string, an array or a mapping the evaluation fails with a type
\* error and nothing is pushed.
C11_Sqrt ==
    [][UnStep("sqrt") =>
          IF cStack = <<>> THEN Failed("InsufficientOperands") /\ cStack' = cStack
          ELSE IF OperandTop.k \in {"str", "list", "dict"} THEN Failed("TypeError")
          ELSE IF IsNegative(OperandTop) THEN Failed("NegativeOperand")
          ELSE /\ cState' = "loop"
               /\ Len(cStack') = Len(cStack)
               /\ SubSeq(cStack', 1, Len(cStack) - 1) = BelowTop
               /\ IsRootOf(cStack'[Len(cStack')], OperandTop)]_vars

\* 5 5 * sqrt gives the float 5.0
C11_Witness ==
    /\ cState = "loop"
    /\ cN = 4
    /\ cTok = Token("NAME", "sqrt")
    /\ cStack = <<PyFloat(5, 1)>>

\* C12: len on an empty stack raises InsufficientOperands; otherwise it
\* replaces the top item by the number of elements of an array, of
\* characters of a string, of entries of a mapping, and raises
\* UnsupportedLenTarget for an integer, a float or a Boolean.
C12_Len ==
    [][UnStep("len") =>
          IF cStack = <<>> THEN Failed("InsufficientOperands")
          ELSE CASE OperandTop.k = "list" -> PushedOnTop(PyInt(Len(OperandTop.e)))
                 [] OperandTop.k = "str" -> PushedOnTop(PyInt(Len(OperandTop.s)))
                 [] OperandTop.k = "dict" -> PushedOnTop(PyInt(Len(OperandTop.e)))
                 [] OTHER -> Failed("UnsupportedLenTarget")]_vars

\* `map len` with map = {a: 2} gives 1
C12_Witness ==
    /\ cState = "loop"
    /\ cN = 2
    /\ cTok = Token("NAME", "len")
    /\ HasKey(cConsts, "map")
    /\ cStack = <<PyInt(1)>>

\* C14 as stated: `-` pushes a - b for two numbers (integer or float) and
\* fails, pushing nothing, when an operand is a string, a Boolean, an
\* array or a mapping.
C14_NonNumericFails ==
    [][(BinStep("-") /\ Len(cStack) >= 2) =>
          IF IsNumber(OperandA) /\ IsNumber(OperandB)
          THEN /\ cState' = "loop"
               /\ (OperandA.k = "int" /\ OperandB.k = "int") =>
                     Pushed(PyInt(OperandA.n - OperandB.n))
          ELSE cState' = "raised"]_vars

\* C17: a name token in an expression pushes the value of the constant of
\* that name if there is one; otherwise sqrt and len are applied as unary
\* operators; every other name raises UnknownConstant.  After
\* `global sqrt = v;` the token sqrt pushes v.
C17_NameOrder ==
    [][\A n \in CalcWords : NameStep(n) =>
          IF HasKey(cConsts, n)
          THEN cState' = "loop" /\ cStack' = Append(cStack, Get(cConsts, n))
          ELSE IF n \in {"sqrt", "len"}
          THEN /\ cStack = <<>> => Failed("InsufficientOperands")
               /\ cStack # <<>> =>
                     \/ cState' = "raised" /\ cRes'.s # "UnknownConstant"
                     \/ /\ cState' = "loop"
                        /\ Len(cStack') = Len(cStack)
                        /\ SubSeq(cStack', 1, Len(cStack) - 1) = BelowTop
                        /\ cStack'[Len(cStack')].k = (IF n = "sqrt" THEN "float" ELSE "int")
          ELSE Failed("UnknownConstant") /\ cStack' = cStack]_vars

\* with sqrt declared as 5, `10 sqrt` leaves 10 and 5 on the stack
C17_Witness ==
    /\ cState = "loop"
    /\ cN = 2
    /\ cTok = Token("NAME", "sqrt")
    /\ cStack = <<PyInt(10), PyInt(5)>>

----------------------------------------------------------------------------
(* Properties of parsing and of the constant table, checked under Spec.    *)

IsUse(ev) == ev.k \in {"use_value", "use_expr"}

\* the log entries the step adds
NewEvents == (Len(log) + 1)..Len(log')

\* the declarations of the name n logged before entry i
DeclsBefore(lg, i, n) == {j \in 1..(i - 1) : lg[j].k = "decl" /\ lg[j].s = n}
Latest(S) == CHOOSE j \in S : \A h \in S : h <= j

\* txt holds `global n = ... ;` at i, closed by a `;` at or before position last
DeclAt(txt, i, n, last) ==
    /\ i + 3 <= last /\ last <= Len(txt)
    /\ txt[i] = "global" /\ txt[i + 1] = n /\ txt[i + 2] = "="
    /\ \E j \in (i + 3)..last : txt[j] = ";"
TextDeclares(txt, n) == \E i \in 1..Len(txt) : DeclAt(txt, i, n, Len(txt))

\* the lookup of a bare boolean keyword as a value, and of sqrt / len in an
\* expression, falls back to the keyword's own meaning when no constant
\* has the name
Fallback(ev) ==
    \/ ev.k = "use_value" /\ ev.s \in {"true", "false"}
    \/ ev.k = "use_expr" /\ ev.s \in {"sqrt", "len"}

\* C1: in a call that starts with an empty constant table, a name used as a
\* value or as an expression token resolves to the value of the latest
\* `global` declaration of that name that stands before the use in the
\* text, and the call fails with UnknownConstant when no declaration of
\* the name stands before the use.
C1_DeclaredBeforeUse ==
    [][base' = NewConsts =>
         \A i \in NewEvents : IsUse(log'[i]) =>
            LET ev == log'[i]
                before == DeclsBefore(log', i, ev.s)
            IN  /\ (before # {}) <=> TextDeclares(text, ev.s)
                /\ before # {} => ev.e[1] = log'[Latest(before)].e[1]
                /\ (\E h \in 1..Len(text) :
                        /\ DeclAt(text, h, ev.s, h + 4)
                        /\ text[h + 3] = "2"
                        /\ \A g \in (h + 1)..Len(text) : ~DeclAt(text, g, ev.s, Len(text)))
                      => ev.e[1] = PyInt(2)
                /\ (before = {} /\ ~Fallback(ev)) =>
                      /\ ev.e[1] = Raise("UnknownConstant")
                      /\ status' = "EvaluationError"
                      /\ errkind' = "UnknownConstant"]_vars

\* global a = 2 ; [ a => ^{ a 2 + } ] gives a = 4
C1_Witness ==
    /\ status = "ok"
    /\ base = NewConsts
    /\ text = <<"global", "a", "=", "2", ";",
               "[", "a", "=>", "^", "{", "a", "2", "+", "}", "]">>
    /\ result = PyDict(<<Entry("a", PyInt(4))>>)

\* C5 as stated: the bare keywords true and false always yield the Boolean
\* value, whatever the constant table holds: they never resolve to a
\* constant and never fail with UnknownConstant.
C5_KeywordIsBoolean ==
    \A i \in 1..Len(log) :
        (IsUse(log[i]) /\ log[i].s \in {"true", "false"}) =>
            log[i].e[1] = PyBool(log[i].s = "true")

\* the names whose declaration in txt is followed by a further lexeme
TextStored(txt) ==
    {n \in Words : \E i \in 1..Len(txt) : DeclAt(txt, i, n, Len(txt) - 1)}

LastWins(pairs, d) ==
    /\ Keys(d) = {pairs[i].s : i \in 1..Len(pairs)}
    /\ \A i \in 1..Len(pairs) :
          (\A j \in (i + 1)..Len(pairs) : pairs[j].s # pairs[i].s) =>
              Get(d, pairs[i].s) = pairs[i].e[1]

\* the entries of the top-level mappings, in the order of the text
RECURSIVE TopPairs(_)
TopPairs(items) ==
    IF items = <<>> THEN <<>> ELSE items[1].e \o TopPairs(Tail(items))

\* C7: the mapping built from the entries of one `[ ... ]`, at any nesting
\* depth, and the Document built from the top-level mappings hold for each
\* key the value of its last occurrence; duplicate keys raise no error.
C7_LastWriteWins ==
    /\ \A i \in 2..Len(pstack) :
          pstack[i].t = "dict" => LastWins(pstack[i].items, dict_items(pstack[i].items))
    /\ status = "ok" => LastWins(TopPairs(pstack[1].items), result)

\* a nested mapping with the same key twice, the values differing
C7_Witness ==
    /\ status = "parsing"
    /\ Len(pstack) = 3
    /\ pstack[3].t = "dict" /\ pstack[3].st = "closed"
    /\ Len(pstack[3].items) = 2
    /\ pstack[3].items[1].s = pstack[3].items[2].s
    /\ pstack[3].items[1].e[1] # pstack[3].items[2].e[1]

\* C8: a call of parse_content starts with the constant table the earlier
\* calls on the same Converter left, so a name not declared again resolves
\* to the value it was left with; a call changes the table of no other
\* Converter, and resolves no name from another Converter's table.
C8_TablePersists ==
    [][/\ nparses' = nparses + 1 => (consts' = consts /\ base' = consts[active'])
       /\ \A s \in Sessions : s # active' => consts'[s] = consts[s]
       /\ \A i \in NewEvents : IsUse(log'[i]) =>
             LET ev == log'[i]
             IN  DeclsBefore(log', i, ev.s) = {} =>
                    IF HasKey(base, ev.s) THEN ev.e[1] = Get(base, ev.s)
                    ELSE Fallback(ev) \/ ev.e[1] = Raise("UnknownConstant")]_vars

\* the second call on the same Converter uses a constant of the first call
C8_Witness ==
    /\ nparses = 2
    /\ active = "c1"
    /\ status = "ok"
    /\ text = <<"[", "a", "=>", "a", "]">>
    /\ base = PyDict(<<Entry("a", PyInt(2))>>)
    /\ result = PyDict(<<Entry("a", PyInt(2))>>)

----------------------------------------------------------------------------
(* Properties of whole documents, checked under SpecDoc.                   *)

\* C13 as stated: a call of parse_content that fails, fails with an error
\* of one of the two families, SyntaxError or EvaluationError.
C13_TwoFamilies ==
    status \notin {"idle", "parsing", "ok"} =>
        status \in {"SyntaxError", "EvaluationError"}

\* every array in the value v, at any depth, holds scalars only
RECURSIVE ArraysScalar(_)
ArraysScalar(v) ==
    /\ v.k = "list" => \A i \in 1..Len(v.e) : v.e[i].k \in {"int", "float", "bool", "str"}
    /\ v.k \in {"dict", "entry", "tuple"} => \A i \in 1..Len(v.e) : ArraysScalar(v.e[i])

\* the values on the operand stack of _calc while it works through items
RECURSIVE StackValues(_, _, _)
StackValues(items, stack, cts) ==
    IF items = <<>> THEN {}
    ELSE LET r == CalcItem(items[1], stack, cts)
         IN  {r.stack[i] : i \in 1..Len(r.stack)}
                \cup (IF r.err # "" THEN {} ELSE StackValues(Tail(items), r.stack, cts))

\* the value an array element written as the lexeme w stands for
ElementValue(w) ==
    IF w \in {"true", "false"} THEN PyBool(w = "true")
    ELSE IF SubSeq(w, 1, 1) = "'" THEN PyStr(SubSeq(w, 2, Len(w) - 1))
    ELSE PyInt(ParseInt(w))

\* the position of the last `list` keyword of the text
LastList(txt) == CHOOSE i \in 1..Len(txt) :
                    txt[i] = "list" /\ \A j \in (i + 1)..Len(txt) : txt[j] # "list"

\* C15: every array in a constant table, in the values under construction,
\* on the operand stack of an expression and in a returned Document holds
\* scalars only, also an array made by + or * from array constants; and
\* the array of a literal (list e1 ... en) holds e1 ... en in that order.
C15_ScalarArrays ==
    /\ \A s \in Sessions : ArraysScalar(consts[s])
    /\ ArraysScalar(result)
    /\ \A i \in 1..Len(pstack) : \A j \in 1..Len(pstack[i].items) :
          ArraysScalar(pstack[i].items[j])
    /\ LET top == pstack[Len(pstack)]
       IN  /\ (top.t = "expr" /\ top.st = "closed") =>
                 \A v \in StackValues(expr_items(top.items).e, <<>>, consts[active]) :
                     ArraysScalar(v)
           /\ (status = "parsing" /\ top.t = "array" /\ top.st = "closed") =>
                 LET first == LastList(text) + 1
                     last == Len(text) - 1
                 IN  array(<<array_items(top.items)>>) =
                        PyList([i \in 1..(last - first + 1) |->
                                   ElementValue(text[first + i - 1])])

\* global a = (list 1 2); global b = ^{a a +}; stored: b is (1 2 1 2)
C15_Witness ==
    /\ status = "parsing"
    /\ HasKey(consts[active], "b")
    /\ Get(consts[active], "b") = PyList(<<PyInt(1), PyInt(2), PyInt(1), PyInt(2)>>)

\* the names after the `global` keywords of the text, in order
RECURSIVE GlobalNames(_)
GlobalNames(txt) ==
    IF Len(txt) < 2 THEN <<>>
    ELSE (IF txt[1] = "global" THEN <<txt[2]>> ELSE <<>>) \o GlobalNames(Tail(txt))

\* the names of the declarations the log holds, in order
RECURSIVE LoggedNames(_)
LoggedNames(lg) ==
    IF lg = <<>> THEN <<>>
    ELSE (IF lg[1].k = "decl" THEN <<lg[1].s>> ELSE <<>>) \o LoggedNames(Tail(lg))

\* the keys written in the mappings of the text
EntryKeys(txt) == {txt[i - 1] : i \in {j \in 2..Len(txt) : txt[j] = "=>"}}

\* C16: the constant table changes only when a `global` declaration has
\* been read to its end; the step then stores the declared name, and only
\* that name, with the value of the right-hand side; the declarations are
\* stored in the order of the text; no other step of the parse (mappings,
\* entries, arrays, names, expressions with all their evaluator steps,
\* failing or not) changes the table of any Converter; and the returned
\* Document holds the keys of the mappings only.
C16_OnlyDeclarations ==
    [][LET decls == {i \in NewEvents : log'[i].k = "decl"}
           top == pstack[Len(pstack)]
           done == top.t = "decl" /\ top.st = "done"
       IN  /\ \A s \in Sessions : s # active' => consts'[s] = consts[s]
           /\ decls = {} => consts' = consts
           /\ decls # {} =>
                 /\ Cardinality(decls) = 1
                 /\ done
                 /\ \A i \in decls :
                       /\ log'[i].s = top.s
                       /\ log'[i].e[1] = top.items[2]
                       /\ Keys(consts'[active]) = Keys(consts[active]) \cup {top.s}
                       /\ Get(consts'[active], top.s) = top.items[2]
                       /\ \A m \in Keys(consts[active]) \ {top.s} :
                             Get(consts'[active], m) = Get(consts[active], m)
           /\ (done /\ status = "parsing" /\ status' # "SyntaxError") => decls # {}
           /\ IsPrefix(LoggedNames(log'), GlobalNames(text'))
           /\ status' = "ok" => Keys(result') = EntryKeys(text')]_vars

\* global a = 1; global b = a; [x => b, y => a]: two names stored, and
\* the Document holds x and y only
C16_Witness ==
    /\ status = "ok"
    /\ text = <<"global", "a", "=", "1", ";", "global", "b", "=", "a", ";",
               "[", "x", "=>", "b", ",", "y", "=>", "a", "]">>
    /\ consts[active] = PyDict(<<Entry("a", PyInt(1)), Entry("b", PyInt(1))>>)
    /\ result = PyDict(<<Entry("x", PyInt(1)), Entry("y", PyInt(1))>>)

\* the position of the last `global` keyword of the text
LastGlobal(txt) == CHOOSE i \in 1..Len(txt) :
                      txt[i] = "global" /\ \A j \in (i + 1)..Len(txt) : txt[j] # "global"

\* the right-hand side of the last declaration of a text that ends with
\* the `;` of that declaration
LastRhs(txt) == SubSeq(txt, LastGlobal(txt) + 3, Len(txt) - 1)

\* twice the value v: the sum v + v and the product v * 2
Twice(v) == IF v.k = "list" THEN PyList(v.e \o v.e) ELSE PyInt(2 * v.n)

\* C18: a declaration stores the value its right-hand side has when the
\* declaration is read: for a bare name, the value the named constant has
\* at that point, for an expression, the result computed from the values
\* its names have at that point.  Storing a declaration changes no other
\* constant and no mapping of the document built before, and a use of a
\* name resolves to the value the table holds for it at the use.
C18_ResolvedAtDeclaration ==
    [][LET top == pstack[Len(pstack)]
           cts == consts[active]
       IN  /\ (\E i \in NewEvents : log'[i].k = "decl") =>
                 LET rhs == LastRhs(text)
                     v == Get(consts'[active], top.s)
                 IN  /\ (Len(rhs) = 1 /\ rhs[1] \in {"a", "b"}) => v = Get(cts, rhs[1])
                     /\ rhs \in {<<"^", "{", "a", "2", "*", "}">>,
                                 <<"^", "{", "a", "a", "+", "}">>} =>
                           v = Twice(Get(cts, "a"))
                     /\ \A m \in Keys(cts) \ {top.s} : Get(consts'[active], m) = Get(cts, m)
           /\ (status = "parsing" /\ status' \in {"parsing", "ok"}) =>
                 IsPrefix(pstack[1].items, pstack'[1].items)
           /\ \A i \in NewEvents :
                 (IsUse(log'[i]) /\ HasKey(cts, log'[i].s)) =>
                     log'[i].e[1] = Get(cts, log'[i].s)]_vars

\* global a = 1; global b = a; global a = 2; [x => b, y => a] gives
\* x = 1 and y = 2
C18_Witness ==
    /\ status = "ok"
    /\ text = <<"global", "a", "=", "1", ";", "global", "b", "=", "a", ";",
               "global", "a", "=", "2", ";",
               "[", "x", "=>", "b", ",", "y", "=>", "a", "]">>
    /\ consts[active] = PyDict(<<Entry("a", PyInt(2)), Entry("b", PyInt(1))>>)
    /\ result = PyDict(<<Entry("x", PyInt(1)), Entry("y", PyInt(2))>>)

\* the call has raised
HasFailed == status \in {"SyntaxError", "EvaluationError", "TypeError"}

\* C19: when a call of parse_content fails, with whatever error, no
\* Document is returned and the Converter's constant table holds, besides
\* what it held when the call started, every declaration the call has
\* processed, with the value it was given; the next call on the same
\* Converter starts with that table and resolves the names from it.
C19_NoRollback ==
    [][/\ HasFailed' =>
             /\ result' = PyNone
             /\ Keys(consts'[active']) = Keys(base') \cup
                    {log'[i].s : i \in {j \in 1..Len(log') : log'[j].k = "decl"}}
             /\ \A n \in Keys(consts'[active']) :
                   LET decls == DeclsBefore(log', Len(log') + 1, n)
                   IN  Get(consts'[active'], n) =
                          IF decls # {} THEN log'[Latest(decls)].e[1] ELSE Get(base', n)
       /\ (HasFailed /\ nparses' = nparses + 1) =>
             /\ consts' = consts
             /\ base' = consts[active']
       /\ \A i \in NewEvents :
             (IsUse(log'[i]) /\ DeclsBefore(log', i, log'[i].s) = {}
                 /\ HasKey(base', log'[i].s)) =>
                   log'[i].e[1] = Get(base', log'[i].s)]_vars

\* The first call read nine lexemes, global a = 1; and four more, which
\* make no document: it failed with a stored.  The second call on the
\* same Converter, global b = a; [x => b, y => a], resolves a.
C19_Witness ==
    /\ nparses = 2
    /\ active = "c1"
    /\ status = "ok"
    /\ nwords = 23
    /\ base = PyDict(<<Entry("a", PyInt(1))>>)
    /\ text = <<"global", "b", "=", "a", ";",
               "[", "x", "=>", "b", ",", "y", "=>", "a", "]">>
    /\ result = PyDict(<<Entry("x", PyInt(1)), Entry("y", PyInt(1))>>)

====
